---------------------------- MODULE Spec2Model ----------------------------
(***************************************************************************)
(* A model of package vald (vald.go): validator combinators Req, Opt,      *)
(* OptDef, Cond and Pack, the checkers OneOf, Regex and Bool, the shared   *)
(* routine doCheck and the result materializer Validator.Map.              *)
(*                                                                         *)
(* Go strings are sequences of one-character strings, so that quoting and  *)
(* concatenation are computed and not assumed.  An error value is a record *)
(* [nil, msg]: nil = TRUE is Go's nil error, otherwise msg is Error().     *)
(* Every evaluation records the calls it makes on the getter, the checker  *)
(* and the consumer in a log of events; each event carries the path of the *)
(* validator that made the call (child indices from the root: the i-th     *)
(* argument of Pack is i, the yes branch of Cond is 1, the no branch 2).   *)
(***************************************************************************)
EXTENDS Integers, Sequences, FiniteSets, TLC

VARIABLES
    v,       \* the validator value under evaluation (constructed once)
    pc,      \* "idle" | "called" (validate(get, cons)) | "mapped" (v.Map(get))
    src,     \* the Go map behind the getter of the last evaluation
    sink,    \* the caller's consumer of the last direct call
    trace,   \* log of getter / checker / consumer calls of the last evaluation
    result,  \* the error returned by the last evaluation
    out,     \* the consumer's own state after the last direct call
    mres,    \* what the last v.Map(get) returned: [isnil, kv]
    ctor     \* the constructor call that made v, when the run follows it

vars == <<v, pc, src, sink, trace, result, out, mres, ctor>>

----------------------------------------------------------------------------
(* Strings *)

\* largest number of validators given to one Pack
MaxPack == 3

S_empty == <<>>
S_aaa == <<"a", "a", "a">>
S_bbb == <<"b", "b", "b">>
S_1 == <<"1">>
S_xxx == <<"x", "x", "x">>
S_XXX == <<"X", "X", "X">>
S_true == <<"t", "r", "u", "e">>
S_false == <<"f", "a", "l", "s", "e">>
S_missing == <<"m","i","s","s","i","n","g"," ","k","e","y",":"," ">>
S_invalid ==
    <<"i","n","v","a","l","i","d"," ","v","a","l","u","e"," ",
      "f","o","r"," ","k","e","y"," ">>
S_colon == <<":", " ">>
S_syntax == <<"i","n","v","a","l","i","d"," ","s","y","n","t","a","x">>
S_sinkerr == <<"s","i","n","k",":"," ","n","o","!">>

Lower ==
    {"a","b","c","d","e","f","g","h","i","j","k","l","m",
     "n","o","p","q","r","s","t","u","v","w","x","y","z"}

RECURSIVE QuoteBody(_)
\* strconv.Quote on printable ASCII: the double quote and the backslash are
\* escaped with a backslash, every other character is copied
QuoteBody(s) ==
    IF Len(s) = 0 THEN <<>>
    ELSE (IF Head(s) \in {"\"", "\\"} THEN <<"\\", Head(s)>> ELSE <<Head(s)>>)
         \o QuoteBody(Tail(s))

Quote(s) == <<"\"">> \o QuoteBody(s) \o <<"\"">>

\* sub occurs in s as a contiguous substring
Contains(s, sub) ==
    \E i \in 1..(Len(s) - Len(sub) + 1) : SubSeq(s, i, i + Len(sub) - 1) = sub

----------------------------------------------------------------------------
(* Errors *)

NoErr == [nil |-> TRUE, msg |-> <<>>]

ErrorsNew(m) == [nil |-> FALSE, msg |-> m]

----------------------------------------------------------------------------
(* Checkers: func(string) (string, error) *)

Panic == [kind |-> "panic"]

\* OneOf(literals...): the constructor
OneOf(literals) ==
    IF Len(literals) = 0 THEN Panic
    ELSE IF \E i \in 1..Len(literals) : Len(literals[i]) = 0 THEN Panic
    ELSE [kind |-> "OneOf",
          m |-> [l \in {literals[i] : i \in 1..Len(literals)} |-> l]]

\* the checker OneOf returns: s = m[val], the zero string when val is no key
OneOfCheck(c, val) ==
    LET s == IF val \in DOMAIN c.m THEN c.m[val] ELSE S_empty
    IN  IF Len(s) = 0
        THEN [val |-> s, err |-> ErrorsNew(Quote(val))]
        ELSE [val |-> s, err |-> NoErr]

\* Regex(patt) for the patterns ^[class]{n}$
Regex(class, n) == [kind |-> "Regex", class |-> class, n |-> n]

RegexMatch(c, val) ==
    /\ Len(val) = c.n
    /\ \A i \in 1..Len(val) : val[i] \in c.class

RegexCheck(c, val) ==
    IF RegexMatch(c, val)
    THEN [val |-> val, err |-> NoErr]
    ELSE [val |-> S_empty, err |-> ErrorsNew(Quote(val))]

\* strconv.ParseBool: [ok, flag]; a failure is a *NumError with Err = ErrSyntax
ParseBool(val) ==
    IF val \in {<<"1">>, <<"t">>, <<"T">>, <<"T","R","U","E">>, S_true,
                <<"T","r","u","e">>}
    THEN [ok |-> TRUE, flag |-> TRUE]
    ELSE IF val \in {<<"0">>, <<"f">>, <<"F">>, <<"F","A","L","S","E">>, S_false,
                     <<"F","a","l","s","e">>}
    THEN [ok |-> TRUE, flag |-> FALSE]
    ELSE [ok |-> FALSE, flag |-> FALSE]

FormatBool(flag) == IF flag THEN S_true ELSE S_false

\* mapNumErr(val, err) with err a *NumError wrapping strconv.ErrSyntax
mapNumErr(val) == ErrorsNew(Quote(val) \o S_colon \o S_syntax)

Bool == [kind |-> "Bool"]

BoolCheck(val) ==
    LET p == ParseBool(val)
    IN  IF ~p.ok
        THEN [val |-> S_empty, err |-> mapNumErr(val)]
        ELSE [val |-> FormatBool(p.flag), err |-> NoErr]

\* check(val) for a checker value
Check(c, val) ==
    CASE c.kind = "OneOf" -> OneOfCheck(c, val)
      [] c.kind = "Regex" -> RegexCheck(c, val)
      [] c.kind = "Bool" -> BoolCheck(val)

----------------------------------------------------------------------------
(* Getter and Consumer *)

Keys == {S_aaa, S_bbb}

\* FromMap(m): m[k], the zero string when k is no key of m
FromMap(m) == [k \in Keys |-> IF k \in DOMAIN m THEN m[k] ELSE S_empty]

\* r[k] = val on a Go map
MapSet(r, k, val) == [x \in (DOMAIN r) \cup {k} |-> IF x = k THEN val ELSE r[x]]

\* the consumer Validator.Map builds: r[k] = v; return nil
MapCons == [kind |-> "map"]

\* a caller's consumer, as the callbacks of the tests: it fails on the keys it
\* does not expect and records the pairs it accepts
UserCons(rej) == [kind |-> "user", rej |-> rej, err |-> ErrorsNew(S_sinkerr)]

\* cons(k, val) with the consumer's state cs: [cs, err]
ConsCall(cons, cs, k, val) ==
    IF cons.kind = "map"
    THEN [cs |-> MapSet(cs, k, val), err |-> NoErr]
    ELSE IF k \in cons.rej
    THEN [cs |-> cs, err |-> cons.err]
    ELSE [cs |-> Append(cs, <<k, val>>), err |-> NoErr]

----------------------------------------------------------------------------
(* The log of calls *)

GetEv(path, key, val) ==
    [op |-> "get", path |-> path, key |-> key, arg |-> key, val |-> val,
     err |-> NoErr]

CheckEv(path, key, raw, r) ==
    [op |-> "check", path |-> path, key |-> key, arg |-> raw, val |-> r.val,
     err |-> r.err]

ConsEv(path, key, val, err) ==
    [op |-> "cons", path |-> path, key |-> key, arg |-> val, val |-> val,
     err |-> err]

Log(st, ev) == [st EXCEPT !.trace = Append(@, ev)]

Ret(st, err) == [trace |-> st.trace, cs |-> st.cs, err |-> err]

----------------------------------------------------------------------------
(* Validators: func(Getter, Consumer) error *)

Nil == [kind |-> "nil"]

\* doCheck handing the pair to the consumer before looking at the checker's
\* error
doCheck_EmitOnReject(key, val, check, cons, path, st) ==
    LET r == Check(check, val)
        st1 == Log(st, CheckEv(path, key, val, r))
        c == ConsCall(cons, st1.cs, key, r.val)
        tr == Append(st1.trace, ConsEv(path, key, r.val, c.err))
    IN  IF ~r.err.nil
        THEN [trace |-> tr, cs |-> c.cs,
              err |-> ErrorsNew(S_invalid \o Quote(key) \o S_colon \o r.err.msg)]
        ELSE [trace |-> tr, cs |-> c.cs, err |-> c.err]

\* doCheck wrapping the consumer's error like the checker's
doCheck_WrapSinkErr(key, val, check, cons, path, st) ==
    LET r == Check(check, val)
        st1 == Log(st, CheckEv(path, key, val, r))
    IN  IF ~r.err.nil
        THEN Ret(st1, ErrorsNew(S_invalid \o Quote(key) \o S_colon \o r.err.msg))
        ELSE LET c == ConsCall(cons, st1.cs, key, r.val)
             IN  [trace |-> Append(st1.trace, ConsEv(path, key, r.val, c.err)),
                  cs |-> c.cs,
                  err |-> IF c.err.nil THEN c.err
                          ELSE ErrorsNew(S_invalid \o Quote(key) \o S_colon
                                         \o c.err.msg)]

\* doCheck(key, val, check, cons)
doCheck(key, val, check, cons, path, st) ==
    LET r == Check(check, val)
        st1 == Log(st, CheckEv(path, key, val, r))
    IN  IF ~r.err.nil
        THEN Ret(st1, ErrorsNew(S_invalid \o Quote(key) \o S_colon \o r.err.msg))
        ELSE LET c == ConsCall(cons, st1.cs, key, r.val)
             IN  [trace |-> Append(st1.trace, ConsEv(path, key, r.val, c.err)),
                  cs |-> c.cs, err |-> c.err]

\* Pack without its test of the argument list
Pack_NoCheck(validators) == [kind |-> "Pack", validators |-> validators]

\* the constructors
Req(key, check) == [kind |-> "Req", key |-> key, check |-> check]

Opt(key, check) == [kind |-> "Opt", key |-> key, check |-> check]

OptDef(key, check, deflt) ==
    [kind |-> "OptDef", key |-> key, check |-> check, deflt |-> deflt]

Cond(key, check, yes, no) ==
    IF yes = Nil /\ no = Nil THEN Panic
    ELSE [kind |-> "Cond", key |-> key, check |-> check, yes |-> yes, no |-> no]

Pack(validators) ==
    IF Len(validators) = 0 THEN Panic
    ELSE [kind |-> "Pack", validators |-> validators]

RECURSIVE Validate(_, _, _, _, _)

\* ReqV with the missing-value return lost: an absent key is let through
ReqV_NoMissing(vd, get, cons, path, st) ==
    LET val == get[vd.key]
        st1 == Log(st, GetEv(path, vd.key, val))
    IN  IF Len(val) > 0
        THEN doCheck(vd.key, val, vd.check, cons, path, st1)
        ELSE Ret(st1, NoErr)

\* ReqV asking the getter once for the test and once more for the value
ReqV_GetTwice(vd, get, cons, path, st) ==
    LET val == get[vd.key]
        st1 == Log(st, GetEv(path, vd.key, val))
    IN  IF Len(val) > 0
        THEN doCheck(vd.key, val, vd.check, cons, path,
                     Log(st1, GetEv(path, vd.key, val)))
        ELSE Ret(st1, ErrorsNew(S_missing \o Quote(vd.key)))

\* the validator Req returns
ReqV(vd, get, cons, path, st) ==
    LET val == get[vd.key]
        st1 == Log(st, GetEv(path, vd.key, val))
    IN  IF Len(val) > 0
        THEN doCheck(vd.key, val, vd.check, cons, path, st1)
        ELSE Ret(st1, ErrorsNew(S_missing \o Quote(vd.key)))

\* OptV treating an absent key as Req does
OptV_Required(vd, get, cons, path, st) ==
    LET val == get[vd.key]
        st1 == Log(st, GetEv(path, vd.key, val))
    IN  IF Len(val) > 0
        THEN doCheck(vd.key, val, vd.check, cons, path, st1)
        ELSE Ret(st1, ErrorsNew(S_missing \o Quote(vd.key)))

\* OptV with the presence test lost: the checker gets whatever was fetched
OptV_NoPresenceTest(vd, get, cons, path, st) ==
    LET val == get[vd.key]
        st1 == Log(st, GetEv(path, vd.key, val))
    IN  doCheck(vd.key, val, vd.check, cons, path, st1)

\* the validator Opt returns
OptV(vd, get, cons, path, st) ==
    LET val == get[vd.key]
        st1 == Log(st, GetEv(path, vd.key, val))
    IN  IF Len(val) > 0
        THEN doCheck(vd.key, val, vd.check, cons, path, st1)
        ELSE Ret(st1, NoErr)

\* OptDefV with the default passed through doCheck like a fetched value
OptDefV_CheckedDefault(vd, get, cons, path, st) ==
    LET val == get[vd.key]
        st1 == Log(st, GetEv(path, vd.key, val))
    IN  IF Len(val) > 0
        THEN doCheck(vd.key, val, vd.check, cons, path, st1)
        ELSE doCheck(vd.key, vd.deflt, vd.check, cons, path, st1)

\* the validator OptDef returns
OptDefV(vd, get, cons, path, st) ==
    LET val == get[vd.key]
        st1 == Log(st, GetEv(path, vd.key, val))
    IN  IF Len(val) > 0
        THEN doCheck(vd.key, val, vd.check, cons, path, st1)
        ELSE LET c == ConsCall(cons, st1.cs, vd.key, vd.deflt)
             IN  [trace |-> Append(st1.trace, ConsEv(path, vd.key, vd.deflt, c.err)),
                  cs |-> c.cs, err |-> c.err]

\* CondV with the two branches exchanged
CondV_Swapped(vd, get, cons, path, st) ==
    LET val == get[vd.key]
        st1 == Log(st, GetEv(path, vd.key, val))
    IN  IF Len(val) > 0
        THEN LET r == doCheck(vd.key, val, vd.check, cons, path, st1)
             IN  IF r.err.nil /\ vd.no # Nil
                 THEN Validate(vd.no, get, cons, Append(path, 2),
                               [trace |-> r.trace, cs |-> r.cs])
                 ELSE r
        ELSE IF vd.yes # Nil
        THEN Validate(vd.yes, get, cons, Append(path, 1), st1)
        ELSE Ret(st1, NoErr)

\* CondV going on to the yes branch whatever doCheck returned
CondV_YesRegardless(vd, get, cons, path, st) ==
    LET val == get[vd.key]
        st1 == Log(st, GetEv(path, vd.key, val))
    IN  IF Len(val) > 0
        THEN LET r == doCheck(vd.key, val, vd.check, cons, path, st1)
             IN  IF vd.yes # Nil
                 THEN Validate(vd.yes, get, cons, Append(path, 1),
                               [trace |-> r.trace, cs |-> r.cs])
                 ELSE r
        ELSE IF vd.no # Nil
        THEN Validate(vd.no, get, cons, Append(path, 2), st1)
        ELSE Ret(st1, NoErr)

\* the validator Cond returns
CondV(vd, get, cons, path, st) ==
    LET val == get[vd.key]
        st1 == Log(st, GetEv(path, vd.key, val))
    IN  IF Len(val) > 0
        THEN LET r == doCheck(vd.key, val, vd.check, cons, path, st1)
             IN  IF r.err.nil /\ vd.yes # Nil
                 THEN Validate(vd.yes, get, cons, Append(path, 1),
                               [trace |-> r.trace, cs |-> r.cs])
                 ELSE r
        ELSE IF vd.no # Nil
        THEN Validate(vd.no, get, cons, Append(path, 2), st1)
        ELSE Ret(st1, NoErr)

RECURSIVE PackLoop(_, _, _, _, _, _, _)
\* the loop of the validator Pack returns, from index i with err the error so far
PackLoop(validators, i, err, get, cons, path, st) ==
    IF i > Len(validators) THEN Ret(st, err)
    ELSE LET r == Validate(validators[i], get, cons, Append(path, i), st)
         IN  IF ~r.err.nil THEN r
             ELSE PackLoop(validators, i + 1, r.err, get, cons, path,
                           [trace |-> r.trace, cs |-> r.cs])

RECURSIVE PackLoopDown(_, _, _, _, _, _, _)
PackLoopDown(validators, i, err, get, cons, path, st) ==
    IF i < 1 THEN Ret(st, err)
    ELSE LET r == Validate(validators[i], get, cons, Append(path, i), st)
         IN  IF ~r.err.nil THEN r
             ELSE PackLoopDown(validators, i - 1, r.err, get, cons, path,
                               [trace |-> r.trace, cs |-> r.cs])

\* PackV ranging over its arguments from the last to the first
PackV_Reversed(vd, get, cons, path, st) ==
    PackLoopDown(vd.validators, Len(vd.validators), NoErr, get, cons, path, st)

RECURSIVE PackLoopNoBreak(_, _, _, _, _, _, _)
PackLoopNoBreak(validators, i, err, get, cons, path, st) ==
    IF i > Len(validators) THEN Ret(st, err)
    ELSE LET r == Validate(validators[i], get, cons, Append(path, i), st)
         IN  PackLoopNoBreak(validators, i + 1, r.err, get, cons, path,
                             [trace |-> r.trace, cs |-> r.cs])

\* PackV with the break lost: the loop goes on after a failure
PackV_NoBreak(vd, get, cons, path, st) ==
    PackLoopNoBreak(vd.validators, 1, NoErr, get, cons, path, st)

\* PackV adding its own context to the failure it passes on
PackV_WrapErr(vd, get, cons, path, st) ==
    LET r == PackLoop(vd.validators, 1, NoErr, get, cons, path, st)
    IN  IF r.err.nil THEN r
        ELSE [r EXCEPT !.err = ErrorsNew(<<"p","a","c","k",":"," ">> \o r.err.msg)]

\* the validator Pack returns
PackV(vd, get, cons, path, st) ==
    PackLoop(vd.validators, 1, NoErr, get, cons, path, st)

\* validate(get, cons) for a validator value
Validate(vd, get, cons, path, st) ==
    CASE vd.kind = "Req" -> ReqV(vd, get, cons, path, st)
      [] vd.kind = "Opt" -> OptV(vd, get, cons, path, st)
      [] vd.kind = "OptDef" -> OptDefV(vd, get, cons, path, st)
      [] vd.kind = "Cond" -> CondV(vd, get, cons, path, st)
      [] vd.kind = "Pack" -> PackV(vd, get, cons, path, st)

\* Map returning the map filled so far together with the failure
MapV_PartialOnFailure(vd, get) ==
    LET r == Validate(vd, get, MapCons, <<>>, [trace |-> <<>>, cs |-> <<>>])
    IN  [isnil |-> FALSE, kv |-> r.cs, err |-> r.err, trace |-> r.trace]

\* validate.Map(get): [isnil, kv, err, trace]
MapV(vd, get) ==
    LET r == Validate(vd, get, MapCons, <<>>, [trace |-> <<>>, cs |-> <<>>])
    IN  IF ~r.err.nil
        THEN [isnil |-> TRUE, kv |-> <<>>, err |-> r.err, trace |-> r.trace]
        ELSE [isnil |-> FALSE, kv |-> r.cs, err |-> NoErr, trace |-> r.trace]

----------------------------------------------------------------------------
(* The validators, sources and consumers explored *)

C_oneof == OneOf(<<S_1, S_xxx>>)

C_regex == Regex(Lower, 3)

Checkers == {C_oneof, C_regex, Bool}

\* "1" passes OneOf unchanged and Bool as "true"; "xxx" passes OneOf and Regex;
\* "XXX" passes no checker
Values == {S_empty, S_1, S_xxx, S_XXX}

Defaults == {S_XXX, S_1}

Sources == UNION {[D -> Values] : D \in SUBSET Keys}

Sinks == {UserCons(rej) : rej \in SUBSET Keys}

Leaves ==
    {Req(k, c) : k \in Keys, c \in Checkers}
    \cup {Opt(k, c) : k \in Keys, c \in Checkers}
    \cup {OptDef(k, c, d) : k \in Keys, c \in Checkers, d \in Defaults}

Branches ==
    {Nil, Req(S_bbb, Bool), Opt(S_aaa, C_oneof), OptDef(S_bbb, C_regex, S_XXX),
     Req(S_aaa, C_regex)}

Conds ==
    {Cond(k, c, y, n) : k \in Keys, c \in Checkers, y \in Branches, n \in Branches}
    \ {Panic}

PackItems ==
    {Req(S_aaa, Bool), Opt(S_aaa, C_oneof), OptDef(S_bbb, C_regex, S_XXX),
     Req(S_bbb, C_oneof),
     Cond(S_aaa, Bool, Req(S_bbb, Bool), Opt(S_bbb, C_oneof)),
     Cond(S_bbb, C_oneof, Nil, OptDef(S_aaa, Bool, S_1))}

Packs == {Pack(vs) : vs \in UNION {[1..n -> PackItems] : n \in 1..MaxPack}}

Validators == Leaves \cup Conds \cup Packs

EmptySt == [trace |-> <<>>, cs |-> <<>>]

----------------------------------------------------------------------------
(* The state machine: a validator is constructed once; a request handler    *)
(* then invokes it, directly or through Map, looks at what came back and    *)
(* returns, and the next request does the same                              *)

NoCtor == [fn |-> "none", args |-> <<>>]

Init ==
    /\ v \in Validators
    /\ pc = "idle"
    /\ src = <<>>
    /\ sink = UserCons({})
    /\ trace = <<>>
    /\ result = NoErr
    /\ out = <<>>
    /\ mres = [isnil |-> TRUE, kv |-> <<>>]
    /\ ctor = NoCtor

\* err := v(FromMap(m), cons)
Call(m, cons) ==
    LET r == Validate(v, FromMap(m), cons, <<>>, EmptySt)
    IN  /\ pc = "idle"
        /\ pc' = "called"
        /\ src' = m
        /\ sink' = cons
        /\ trace' = r.trace
        /\ result' = r.err
        /\ out' = r.cs
        /\ mres' = [isnil |-> TRUE, kv |-> <<>>]
        /\ UNCHANGED <<v, ctor>>

\* r, err := v.Map(FromMap(m))
MapCall(m) ==
    LET r == MapV(v, FromMap(m))
    IN  /\ pc = "idle"
        /\ pc' = "mapped"
        /\ src' = m
        /\ sink' = MapCons
        /\ trace' = r.trace
        /\ result' = r.err
        /\ out' = <<>>
        /\ mres' = [isnil |-> r.isnil, kv |-> r.kv]
        /\ UNCHANGED <<v, ctor>>

\* the handler returns: its getter, consumer and results go out of scope
HandlerReturn ==
    /\ pc \in {"called", "mapped"}
    /\ pc' = "idle"
    /\ src' = <<>>
    /\ sink' = UserCons({})
    /\ trace' = <<>>
    /\ result' = NoErr
    /\ out' = <<>>
    /\ mres' = [isnil |-> TRUE, kv |-> <<>>]
    /\ UNCHANGED <<v, ctor>>

Next ==
    \/ \E m \in Sources, cons \in Sinks : Call(m, cons)
    \/ \E m \in Sources : MapCall(m)
    \/ HandlerReturn

Spec == Init /\ [][Next]_vars

----------------------------------------------------------------------------
(* Construction: a program builds one validator with Pack or Cond, or one    *)
(* checker with OneOf that it hands to Req, and then serves requests with    *)
(* it; a constructor that panics ends the program                            *)

PackArgs == UNION {[1..n -> PackItems] : n \in 0..MaxPack}

CondArgs ==
    [key : Keys, check : Checkers, yes : Branches, no : Branches]

OneOfArgs == UNION {[1..n -> {S_empty, S_1, S_xxx}] : n \in 0..2}

InitCtor ==
    /\ v = Nil
    /\ pc = "init"
    /\ src = <<>>
    /\ sink = UserCons({})
    /\ trace = <<>>
    /\ result = NoErr
    /\ out = <<>>
    /\ mres = [isnil |-> TRUE, kv |-> <<>>]
    /\ ctor = NoCtor

\* the program goes on with the value made, or ends in the panic
Constructed(fn, args, made, use) ==
    /\ pc = "init"
    /\ ctor' = [fn |-> fn, args |-> args]
    /\ IF made = Panic
       THEN pc' = "panicked" /\ UNCHANGED v
       ELSE pc' = "idle" /\ v' = use
    /\ UNCHANGED <<src, sink, trace, result, out, mres>>

\* v := Pack(validators...)
NewPack(validators) ==
    Constructed("Pack", validators, Pack(validators), Pack(validators))

\* v := Cond(key, check, yes, no)
NewCond(a) ==
    Constructed("Cond", a, Cond(a.key, a.check, a.yes, a.no),
                Cond(a.key, a.check, a.yes, a.no))

\* v := Req("aaa", OneOf(literals...))
NewOneOf(literals) ==
    Constructed("OneOf", literals, OneOf(literals), Req(S_aaa, OneOf(literals)))

NextCtor ==
    \/ \E validators \in PackArgs : NewPack(validators)
    \/ \E a \in CondArgs : NewCond(a)
    \/ \E literals \in OneOfArgs : NewOneOf(literals)
    \/ \E m \in Sources, cons \in Sinks : Call(m, cons)
    \/ HandlerReturn

SpecCtor == InitCtor /\ [][NextCtor]_vars

----------------------------------------------------------------------------
(* Nested compositions: a Pack given to a Pack, and a Pack of one validator *)

NestedPacks ==
    {Pack(<<a, Pack(<<b, c>>)>>) : a \in PackItems, b \in PackItems, c \in PackItems}
    \cup {Pack(<<Pack(<<a, b>>), c>>) :
              a \in PackItems, b \in PackItems, c \in PackItems}
    \cup {Pack(<<a>>) : a \in PackItems \cup Leaves}

InitNest ==
    /\ v \in NestedPacks
    /\ pc = "idle"
    /\ src = <<>>
    /\ sink = UserCons({})
    /\ trace = <<>>
    /\ result = NoErr
    /\ out = <<>>
    /\ mres = [isnil |-> TRUE, kv |-> <<>>]
    /\ ctor = NoCtor

SpecNest == InitNest /\ [][Next]_vars

----------------------------------------------------------------------------
(* Reading the log *)

\* the getter of the last evaluation
Get == FromMap(src)

\* the consumer calls of a log, in order
Emissions(tr) == SelectSeq(tr, LAMBDA e : e.op = "cons")

\* vd evaluated on its own against the source and consumer of the last
\* evaluation, its calls logged under path
Solo(vd, path) == Validate(vd, Get, sink, path, EmptySt)

RECURSIVE ConcatTraces(_, _, _)
\* the logs of validators[i..k] evaluated on their own, one after the other
ConcatTraces(validators, i, k) ==
    IF i > k THEN <<>>
    ELSE Solo(validators[i], <<i>>).trace \o ConcatTraces(validators, i + 1, k)

\* the arguments of a Pack that fail on their own
Failing(validators) ==
    {i \in 1..Len(validators) : ~Solo(validators[i], <<i>>).err.nil}

\* the first failing argument, the last argument when none fails
LastRun(validators) ==
    IF Failing(validators) = {} THEN Len(validators)
    ELSE CHOOSE i \in Failing(validators) : \A j \in Failing(validators) : i <= j

\* what the caller's consumer answers to key k
SinkAnswer(k) == IF k \in sink.rej THEN sink.err ELSE NoErr

RECURSIVE NodeAt(_, _)
\* the validator a path leads to from vd
NodeAt(vd, path) ==
    IF Len(path) = 0 THEN vd
    ELSE IF vd.kind = "Pack" THEN NodeAt(vd.validators[Head(path)], Tail(path))
    ELSE NodeAt(IF Head(path) = 1 THEN vd.yes ELSE vd.no, Tail(path))

\* event e is the acceptance of a field: its checker accepted the fetched value,
\* or the field is absent and its validator supplies a default
IsAccept(e) ==
    \/ e.op = "check" /\ e.err.nil
    \/ e.op = "get" /\ Len(e.val) = 0 /\ NodeAt(v, e.path).kind = "OptDef"

\* the value accepted by event e
Accepted(e) == IF e.op = "check" THEN e.val ELSE NodeAt(v, e.path).deflt

\* every consumer call directly follows the acceptance of its field, with the
\* accepted value, and every acceptance is directly followed by its call
EmitsExactlyOnAccept ==
    /\ \A p \in 1..Len(trace) :
           trace[p].op = "cons" =>
               /\ p > 1
               /\ IsAccept(trace[p - 1])
               /\ trace[p - 1].path = trace[p].path
               /\ trace[p - 1].key = trace[p].key
               /\ Accepted(trace[p - 1]) = trace[p].arg
    /\ \A p \in 1..Len(trace) :
           IsAccept(trace[p]) => (p < Len(trace) /\ trace[p + 1].op = "cons")

\* the emitted pairs of a log folded in order, a later one replacing an earlier
\* one of the same key
LastWrite(tr) ==
    LET em == Emissions(tr)
        last(k) == CHOOSE i \in 1..Len(em) :
                       /\ em[i].key = k
                       /\ \A j \in 1..Len(em) : em[j].key = k => j <= i
    IN  [k \in {em[i].key : i \in 1..Len(em)} |-> em[last(k)].val]

\* the texts TestErrors expects
S_parameter == <<"p","a","r","a","m","e","t","e","r"," ">>
S_missing_value ==
    <<":"," ","m","i","s","s","i","n","g"," ","v","a","l","u","e">>
S_invalid_value ==
    <<":"," ","i","n","v","a","l","i","d"," ","v","a","l","u","e",":"," ">>
S_invalid_syntax ==
    <<":"," ","i","n","v","a","l","i","d"," ","s","y","n","t","a","x",":"," ">>

----------------------------------------------------------------------------
(* Claims *)

\* C1: a validator built with Pack(v1, ..., vn) invokes its arguments in
\* construction order: the consumer calls of one evaluation are the consumer
\* calls of v1, v2, ... up to the first failing one, concatenated in order, and
\* no consumer call of vj precedes one of vi when i < j.
C1_PackOrder ==
    (pc = "called" /\ v.kind = "Pack") =>
        /\ Emissions(trace) =
               Emissions(ConcatTraces(v.validators, 1, LastRun(v.validators)))
        /\ \A p, q \in 1..Len(trace) :
               (p < q /\ trace[p].op = "cons" /\ trace[q].op = "cons")
                   => trace[p].path[1] <= trace[q].path[1]

C1_Witness ==
    /\ pc = "called"
    /\ v.kind = "Pack"
    /\ \E p, q \in 1..Len(trace) :
           /\ trace[p].op = "cons"
           /\ trace[q].op = "cons"
           /\ trace[p].path[1] + 1 < trace[q].path[1]

\* C2: when vk is the first argument of Pack(v1, ..., vn) that fails, Pack
\* returns the failure of vk unchanged and nothing after vk runs: the log ends
\* with the calls of vk and holds no call of a later argument.
C2_PackStopsAtFirstFailure ==
    (pc = "called" /\ v.kind = "Pack" /\ Failing(v.validators) # {}) =>
        LET k == LastRun(v.validators)
            s == Solo(v.validators[k], <<k>>)
        IN  /\ result = s.err
            /\ Len(trace) >= Len(s.trace)
            /\ SubSeq(trace, Len(trace) - Len(s.trace) + 1, Len(trace)) = s.trace
            /\ \A p \in 1..Len(trace) : trace[p].path[1] <= k

C2_Witness ==
    /\ pc = "called"
    /\ v.kind = "Pack"
    /\ Failing(v.validators) # {}
    /\ LastRun(v.validators) < Len(v.validators)
    /\ LastRun(v.validators) > 1
    /\ Len(out) > 0

\* C3: Req(k, c) against a source without k fails with a failure naming k and
\* calls neither the checker nor the consumer; with k present it never returns
\* the missing-value failure.
C3_ReqMissing ==
    (pc = "called" /\ v.kind = "Req") =>
        IF Len(Get[v.key]) = 0
        THEN /\ ~result.nil
             /\ Contains(result.msg, v.key)
             /\ \A p \in 1..Len(trace) : trace[p].op = "get"
             /\ out = <<>>
        ELSE result # ErrorsNew(S_missing \o Quote(v.key))

C3_Witness ==
    /\ pc = "called"
    /\ v.kind = "Req"
    /\ Len(Get[v.key]) = 0
    /\ ~result.nil

\* C4: OptDef(k, c, d) against a source without k calls the consumer exactly
\* once, with (k, d) as given, never calls the checker, also when c rejects d,
\* and returns what the consumer returns.
C4_OptDefDefault ==
    (pc = "called" /\ v.kind = "OptDef" /\ Len(Get[v.key]) = 0) =>
        /\ trace = <<GetEv(<<>>, v.key, S_empty),
                     ConsEv(<<>>, v.key, v.deflt, SinkAnswer(v.key))>>
        /\ result = SinkAnswer(v.key)
        /\ out = IF v.key \in sink.rej THEN <<>> ELSE << <<v.key, v.deflt>> >>

C4_Witness ==
    /\ pc = "called"
    /\ v.kind = "OptDef"
    /\ Len(Get[v.key]) = 0
    /\ ~Check(v.check, v.deflt).err.nil
    /\ out = << <<v.key, v.deflt>> >>

C6_OncePerFieldName ==
    (pc # "idle") =>
        /\ \A p, q \in 1..Len(trace) :
               (trace[p].op = "cons" /\ trace[q].op = "cons"
                /\ trace[p].key = trace[q].key) => p = q
        /\ EmitsExactlyOnAccept

\* C6 (amended): in one evaluation the consumer is called at most once per
\* field validator of the composition, so a field name that several validators
\* share can be emitted once for each of them; each call happens exactly when
\* that validator's value or default is accepted.
C6_OncePerValidator ==
    (pc # "idle") =>
        /\ \A p, q \in 1..Len(trace) :
               (trace[p].op = "cons" /\ trace[q].op = "cons"
                /\ trace[p].path = trace[q].path) => p = q
        /\ EmitsExactlyOnAccept

C6_Witness ==
    /\ pc = "called"
    /\ \E p, q \in 1..Len(trace) :
           /\ p < q
           /\ trace[p].op = "cons"
           /\ trace[q].op = "cons"
           /\ trace[p].key = trace[q].key
           /\ trace[p].path # trace[q].path

\* C7: v.Map(g) returns no mapping and the failure when the evaluation of v
\* fails, also after earlier fields were accepted, and otherwise the mapping
\* and no failure, the mapping being the emitted pairs folded in emission order
\* with a later emission of a key replacing an earlier one.
C7_Map ==
    (pc = "mapped") =>
        /\ result = Validate(v, Get, UserCons({}), <<>>, EmptySt).err
        /\ IF ~result.nil
           THEN mres.isnil /\ mres.kv = <<>>
           ELSE ~mres.isnil /\ mres.kv = LastWrite(trace)

C7_Witness ==
    /\ pc = "mapped"
    /\ ~result.nil
    /\ Emissions(trace) # <<>>
    /\ mres.isnil

\* C8: when the consumer rejects an accepted field, the validator returns the
\* consumer's failure unchanged, without the field name added, and the
\* evaluation ends there: the rejected call is the last call of the log.
C8_SinkFailure ==
    (pc = "called") =>
        \A p \in 1..Len(trace) :
            (trace[p].op = "cons" /\ ~trace[p].err.nil) =>
                /\ p = Len(trace)
                /\ result = trace[p].err
                /\ result = sink.err
                /\ ~Contains(result.msg, trace[p].key)

C8_Witness ==
    /\ pc = "called"
    /\ v.kind = "Cond"
    /\ v.yes # Nil
    /\ v.key \in sink.rej
    /\ Len(trace) = 3
    /\ trace[3].op = "cons"
    /\ result = sink.err

\* C9: the failure of a Req field has the text TestErrors asserts: parameter
\* <quoted key>: missing value for an absent field, parameter <quoted key>:
\* invalid value: <quoted raw value> when OneOf or Regex rejects the value, and
\* parameter <quoted key>: invalid syntax: <quoted raw value> when Bool does.
C9_TestErrorsText ==
    (pc # "idle" /\ v.kind = "Req") =>
        LET raw == Get[v.key]
            r == Check(v.check, raw)
        IN  /\ Len(raw) = 0 =>
                  result.msg = S_parameter \o Quote(v.key) \o S_missing_value
            /\ (Len(raw) > 0 /\ ~r.err.nil /\ v.check.kind \in {"OneOf", "Regex"}) =>
                  result.msg = S_parameter \o Quote(v.key) \o S_invalid_value
                               \o Quote(raw)
            /\ (Len(raw) > 0 /\ ~r.err.nil /\ v.check.kind = "Bool") =>
                  result.msg = S_parameter \o Quote(v.key) \o S_invalid_syntax
                               \o Quote(raw)

\* C10: Opt(k, c) against a source without k succeeds with no effect: no
\* checker call, no consumer call, no failure; with k present it does what
\* Req(k, c) does.
C10_Opt ==
    (pc = "called" /\ v.kind = "Opt") =>
        IF Len(Get[v.key]) = 0
        THEN /\ trace = <<GetEv(<<>>, v.key, S_empty)>>
             /\ result = NoErr
             /\ out = <<>>
        ELSE LET r == Validate(Req(v.key, v.check), Get, sink, <<>>, EmptySt)
             IN  /\ trace = r.trace
                 /\ result = r.err
                 /\ out = r.cs

C10_Witness ==
    /\ pc = "called"
    /\ v.kind = "Opt"
    /\ Len(Get[v.key]) = 0
    /\ result = NoErr
    /\ Len(trace) = 1

\* C11: Cond(k, c, yes, no) against a source where k is present but the
\* checker rejects its value, or the consumer rejects the accepted pair,
\* returns the failure and runs neither yes nor no; yes runs only after k was
\* checked and emitted without failure.
C11_CondFailure ==
    (pc = "called" /\ v.kind = "Cond" /\ Len(Get[v.key]) > 0) =>
        LET raw == Get[v.key]
            r == Check(v.check, raw)
        IN  /\ ~r.err.nil =>
                  /\ result = ErrorsNew(S_invalid \o Quote(v.key) \o S_colon
                                        \o r.err.msg)
                  /\ trace = <<GetEv(<<>>, v.key, raw),
                               CheckEv(<<>>, v.key, raw, r)>>
            /\ (r.err.nil /\ v.key \in sink.rej) =>
                  /\ result = sink.err
                  /\ trace = <<GetEv(<<>>, v.key, raw),
                               CheckEv(<<>>, v.key, raw, r),
                               ConsEv(<<>>, v.key, r.val, sink.err)>>
            /\ \A p \in 1..Len(trace) :
                   trace[p].path # <<>> =>
                       /\ trace[p].path[1] = 1
                       /\ p > 3
                       /\ trace[3] = ConsEv(<<>>, v.key, r.val, NoErr)

C11_Witness ==
    /\ pc = "called"
    /\ v.kind = "Cond"
    /\ v.yes # Nil
    /\ v.no # Nil
    /\ Len(Get[v.key]) > 0
    /\ ~Check(v.check, Get[v.key]).err.nil
    /\ ~result.nil
    /\ Len(trace) = 2

\* C13: every checker call of every evaluation gets a non-empty raw string: an
\* empty getter result is absence and is never checked.
C13_CheckerNeverGetsEmpty ==
    (pc # "idle") =>
        \A p \in 1..Len(trace) :
            trace[p].op = "check" =>
                /\ Len(trace[p].arg) > 0
                /\ trace[p].arg = Get[trace[p].key]

C13_Witness ==
    /\ pc = "called"
    /\ \E k \in DOMAIN src : src[k] = S_empty
    /\ \E p \in 1..Len(trace) : trace[p].op = "get" /\ Len(trace[p].val) = 0
    /\ \E p \in 1..Len(trace) : trace[p].op = "check"

\* the argument combinations the constructors must refuse
BadArgs(c) ==
    \/ c.fn = "Pack" /\ Len(c.args) = 0
    \/ c.fn = "Cond" /\ c.args.yes = Nil /\ c.args.no = Nil
    \/ c.fn = "OneOf" /\ (Len(c.args) = 0
                          \/ \E i \in 1..Len(c.args) : Len(c.args[i]) = 0)

\* C14: configuration errors abort at construction, before any evaluation:
\* Pack with no validators, Cond with yes and no both nil and OneOf with no
\* literal or with an empty literal panic inside the constructor, so that no
\* value is returned and nothing is ever evaluated with it; every other
\* argument combination of these constructors returns normally.
C14_ConstructorsFailFast ==
    (pc # "init") =>
        /\ (pc = "panicked") <=> BadArgs(ctor)
        /\ (pc = "panicked") => (v = Nil /\ trace = <<>> /\ src = <<>>)
        /\ (pc # "panicked") => v.kind \in {"Pack", "Cond", "Req"}

C14_Witness ==
    /\ pc = "panicked"
    /\ ctor.fn = "OneOf"
    /\ Len(ctor.args) = 2
    /\ ctor.args[1] = S_xxx

\* the (name, value) pairs of a sequence of consumer calls
Pairs(em) == [i \in 1..Len(em) |-> <<em[i].key, em[i].val>>]

\* C15 (as stated): when a direct call with the caller's consumer fails, the
\* consumer has received exactly the emissions of everything evaluated before
\* the failing field, in order, and nothing from the failing field or after it.
C15_NothingFromFailingField ==
    (pc = "called" /\ ~result.nil) =>
        LET f == trace[Len(trace)].path
        IN  /\ \A p \in 1..Len(trace) :
                   trace[p].op = "cons" => trace[p].path # f
            /\ out = Pairs(Emissions(trace))

\* C15 (amended): when a direct call with the caller's consumer fails, the
\* consumer keeps the pairs it accepted before the failure point: they are
\* exactly the emissions of everything evaluated before the failing field, in
\* order. From the failing field it has received nothing when the field is
\* missing or rejected by its checker, and exactly the one pair it rejected, as
\* its last call, when the failure is the consumer's own; nothing comes after.
C15_FailureKeepsEmissions ==
    (pc = "called" /\ ~result.nil) =>
        LET n == Len(trace)
            f == trace[n].path
            before == SubSeq(trace, 1, n - 1)
        IN  /\ \A p \in 1..(n - 1) :
                   trace[p].op = "cons" => (trace[p].err.nil /\ trace[p].path # f)
            /\ out = Pairs(Emissions(before))
            /\ trace[n].op = "cons" =>
                   (~trace[n].err.nil /\ result = trace[n].err)
            /\ trace[n].op # "cons" => result # sink.err

C15_Witness ==
    /\ pc = "called"
    /\ ~result.nil
    /\ Len(out) >= 2
    /\ trace[Len(trace)].op = "cons"

RECURSIVE FlatList(_)
\* the validators of a Pack argument list with every Pack among them replaced
\* by its own arguments, in order
FlatList(validators) ==
    IF Len(validators) = 0 THEN <<>>
    ELSE (IF Head(validators).kind = "Pack"
          THEN FlatList(Head(validators).validators)
          ELSE <<Head(validators)>>)
         \o FlatList(Tail(validators))

\* a log without the paths: the calls as the getter, checkers and consumer see
\* them
Strip(tr) ==
    [i \in 1..Len(tr) |->
        [op |-> tr[i].op, key |-> tr[i].key, arg |-> tr[i].arg,
         val |-> tr[i].val, err |-> tr[i].err]]

\* the validator a nested Pack must be indistinguishable from: a for Pack(a),
\* Pack(a, b, c) for Pack(a, Pack(b, c)) and Pack(Pack(a, b), c)
Unnested(vd) ==
    IF Len(vd.validators) = 1 /\ vd.validators[1].kind # "Pack"
    THEN vd.validators[1]
    ELSE Pack(FlatList(vd.validators))

\* C16: Pack is transparent to nesting: Pack(a, Pack(b, c)), Pack(Pack(a, b), c)
\* and Pack(a, b, c) make the same getter, checker and consumer calls in the
\* same order and return the same outcome, against every source with every
\* consumer and through Map, and Pack(a) behaves as a.
C16_PackNesting ==
    /\ (pc = "called" /\ v.kind = "Pack") =>
           LET r == Validate(Unnested(v), Get, sink, <<>>, EmptySt)
           IN  /\ Strip(trace) = Strip(r.trace)
               /\ result = r.err
               /\ out = r.cs
    /\ (pc = "mapped" /\ v.kind = "Pack") =>
           LET r == MapV(Unnested(v), Get)
           IN  /\ Strip(trace) = Strip(r.trace)
               /\ result = r.err
               /\ mres = [isnil |-> r.isnil, kv |-> r.kv]

C16_Witness ==
    /\ pc = "called"
    /\ v.kind = "Pack"
    /\ Len(v.validators) = 2
    /\ v.validators[2].kind = "Pack"
    /\ ~result.nil
    /\ Len(out) >= 1
    /\ Len(trace[Len(trace)].path) >= 2
    /\ trace[Len(trace)].path[1] = 2
    /\ trace[Len(trace)].path[2] = 2

RECURSIVE AllPaths(_, _)
\* the paths of the validators of the composition vd rooted at path
AllPaths(vd, path) ==
    {path} \cup
    (IF vd.kind = "Pack"
     THEN UNION {AllPaths(vd.validators[i], Append(path, i)) :
                     i \in 1..Len(vd.validators)}
     ELSE IF vd.kind = "Cond"
     THEN (IF vd.yes # Nil THEN AllPaths(vd.yes, Append(path, 1)) ELSE {})
          \cup (IF vd.no # Nil THEN AllPaths(vd.no, Append(path, 2)) ELSE {})
     ELSE {})

IsPrefix(a, b) == Len(a) <= Len(b) /\ SubSeq(b, 1, Len(a)) = a

IsField(vd) == vd.kind \in {"Req", "Opt", "OptDef", "Cond"}

\* event e is a failure: a required field is absent, a checker or the consumer
\* returned an error
IsFailure(e) ==
    \/ e.op = "get" /\ Len(e.val) = 0 /\ NodeAt(v, e.path).kind = "Req"
    \/ e.op \in {"check", "cons"} /\ ~e.err.nil

\* some validator at or below path failed
FailedBelow(path) ==
    \E p \in 1..Len(trace) : IsFailure(trace[p]) /\ IsPrefix(path, trace[p].path)

RECURSIVE Reached(_)
\* the validator at path is one the evaluation gets to: the root; an argument
\* of a reached Pack all of whose earlier arguments succeeded; the yes branch of
\* a reached Cond whose field was fetched, checked and emitted without failure;
\* the no branch of a reached Cond whose field is absent
Reached(path) ==
    IF Len(path) = 0 THEN TRUE
    ELSE LET up == SubSeq(path, 1, Len(path) - 1)
             i == path[Len(path)]
             parent == NodeAt(v, up)
         IN  /\ Reached(up)
             /\ IF parent.kind = "Pack"
                THEN \A j \in 1..(i - 1) : ~FailedBelow(Append(up, j))
                ELSE IF i = 1
                THEN /\ Len(Get[parent.key]) > 0
                     /\ \A p \in 1..Len(trace) :
                            trace[p].path = up => ~IsFailure(trace[p])
                ELSE Len(Get[parent.key]) = 0

\* the positions of the getter calls made by the validator at path
GetsAt(path) ==
    {p \in 1..Len(trace) : trace[p].op = "get" /\ trace[p].path = path}

\* C17: each field validator calls the getter exactly once per evaluation, with
\* its own field name, before any checker or consumer call for that field; an
\* evaluation calls the getter once for every field validator it reaches and
\* never for one after the first failure or in a Cond branch not taken.
C17_GetterCalls ==
    (pc # "idle") =>
        /\ \A path \in AllPaths(v, <<>>) :
               IF IsField(NodeAt(v, path)) /\ Reached(path)
               THEN Cardinality(GetsAt(path)) = 1
               ELSE GetsAt(path) = {}
        /\ \A p \in 1..Len(trace) :
               /\ trace[p].path \in AllPaths(v, <<>>)
               /\ trace[p].op = "get" =>
                      /\ trace[p].arg = NodeAt(v, trace[p].path).key
                      /\ trace[p].val = Get[trace[p].arg]
               /\ trace[p].op \in {"check", "cons"} =>
                      \E q \in 1..(p - 1) :
                          trace[q].op = "get" /\ trace[q].path = trace[p].path
               /\ IsFailure(trace[p]) => p = Len(trace)

C17_Witness ==
    /\ pc = "called"
    /\ v.kind = "Pack"
    /\ ~result.nil
    /\ Len(trace) >= 4
    /\ \E path \in AllPaths(v, <<>>) :
           /\ Len(path) = 2
           /\ path[2] = 1
           /\ ~Reached(path)
           /\ Reached(SubSeq(path, 1, 1))
    /\ \E path \in AllPaths(v, <<>>) : Len(path) = 1 /\ ~Reached(path)

=============================================================================
